---- MODULE Spec2Model ----
\* Model of src/hippopopulation.py: the year-stepping population simulator
\* (simulate), its policy predicates and the carrying-capacity estimator
\* (get_carrying_capacity).
\*
\* Numbers.  Rates are real numbers in the program; here a rate is an integer
\* count of thousandths (0.3 is 300), so population * rate is a count of
\* thousandths of a hippo and int() of it truncates that toward zero.  Means
\* (np.mean) are exact fractions <<numerator, denominator>>; floating-point
\* rounding is not modelled.
\*
\* Randomness.  random.normalvariate(mu, sigma) is mu + z * sigma for a z drawn
\* from ZScores; random.randint(1, 300) is any integer of 1..300.  The variable
\* rare counts, within one top-level call, the draws that left the mode of
\* their distribution (z # 0, or a phenomenon firing); MaxRare caps it.
EXTENDS Integers, Sequences, FiniteSets

\* ---------------------------------------------------------------- bounds
MaxYears == 4       \* largest num_years passed to simulate by the caller
MaxNum == 2         \* largest num passed to get_carrying_capacity
MaxCCYears == 2     \* largest years passed to get_carrying_capacity
MaxRare == 1        \* non-modal random draws per top-level call

ZScores == {-4, 0, 130}
InitialPopulations == {-5, 0, 100, 450, 1000}
PopulationSamples == {-1, 0, 1, 399, 400, 401, 499, 500, 999, 1000}
YearSamples == {0, 1, 2, 3, 4, 19, 20, 21, 49, 50, 51, 150, 300, 301, 302}

VARIABLES
    KSP,               \* class KSP: the configured parameters
    KPI,               \* class KPI: the class-level defaults
    pc,                \* "idle", "direct", "simulate", "cc", "raised"
    caller,            \* who simulate returns to: "top" or "cc"
    num_years,         \* simulate: its argument
    current_year,      \* simulate: the next value range(num_years) yields
    hippo_population,  \* simulate: the trajectory so far
    kpi,               \* simulate: the KPI instance
    num, years,        \* get_carrying_capacity: its arguments
    i, j,              \* get_carrying_capacity: loop indices
    array,             \* get_carrying_capacity: the peaks collected
    result,            \* get_carrying_capacity: the recorded means
    maximum,           \* get_carrying_capacity: the running mean
    ret,               \* what the last finished call returned
    rare               \* non-modal draws made in the current top-level call

vars == <<KSP, KPI, pc, caller, num_years, current_year, hippo_population, kpi,
          num, years, i, j, array, result, maximum, ret, rare>>

simVars == <<num_years, current_year, hippo_population, kpi>>
ccVars == <<num, years, i, j, array, result, maximum>>

\* ------------------------------------------------------- classes KSP, KPI
KSPClass(initialPopulation) ==
    [initialPopulation |-> initialPopulation,
     birthRate |-> 300, deathRate |-> 30,
     birthRateDev |-> 30, deathRateDev |-> 10,
     humanInfluenceRate |-> 200, humanInfluenceDev |-> 25,
     resourcesRate |-> 50, resourcesDev |-> 10,
     phenomenonRate |-> 100, phenomenonDev |-> 50]

KPIClass ==
    [populationSize |-> 0, newBirths |-> 0, newDeaths |-> 0,
     humanInfluence |-> FALSE, humanDeaths |-> 0,
     resources |-> TRUE, resourceDeaths |-> 0,
     phenomenon |-> FALSE, phenomenonDeaths |-> 0]

\* ------------------------------------------------------------ primitives
Abs(n) == IF n < 0 THEN -n ELSE n

\* A mis-implementation of int(): rounds toward minus infinity.
int_floor(n, d) == n \div d

\* int(n / d) for d > 0: Python's int() of a real truncates toward zero.
int(n, d) == IF n >= 0 THEN n \div d ELSE -((-n) \div d)

\* random.normalvariate(mu, sigma), the draw being z standard deviations out.
normalvariate(mu, sigma, z) == mu + z * sigma

\* random.randint(1, 300): the values it can return.
randint(a, b) == a..b

get_num_births(num_hippos, birth_rate_mean, birth_rate_dev, z) ==
    LET births == normalvariate(birth_rate_mean, birth_rate_dev, z)
        new_births == num_hippos * births
    IN  int(new_births, 1000)

get_num_deaths(num_hippos, death_rate_mean, death_rate_dev, z) ==
    LET deaths == normalvariate(death_rate_mean, death_rate_dev, z)
        new_deaths == num_hippos * deaths
    IN  int(new_deaths, 1000)

get_num_human_deaths(num_hippos, human_influence_mean, human_influence_dev, z) ==
    LET death_rate == normalvariate(human_influence_mean, human_influence_dev, z)
        new_deaths == num_hippos * death_rate
    IN  int(new_deaths, 1000)

get_num_resource_deaths(num_hippos, resources_mean, resources_dev, z) ==
    LET death_rate == normalvariate(resources_mean, resources_dev, z)
        new_deaths == num_hippos * death_rate
    IN  int(new_deaths, 1000)

get_num_phenomenon_deaths(num_hippos, phenomenon_mean, phenomenon_dev, z) ==
    LET death_rate == normalvariate(phenomenon_mean, phenomenon_dev, z)
        new_deaths == num_hippos * death_rate
    IN  int(new_deaths, 1000)

\* ------------------------------------------------------ policy predicates
\* A mis-implementation: regulation starts one year late.
is_there_human_influence_late(num_hippos, current_yr) ==
    IF current_yr <= 3 THEN FALSE
    ELSE IF num_hippos < 400 THEN FALSE ELSE TRUE

is_there_human_influence(num_hippos, current_yr) ==
    IF current_yr < 3 THEN FALSE
    ELSE IF num_hippos < 400 THEN FALSE ELSE TRUE

\* A mis-implementation: the boundary year 20 is put in the second window.
enough_resources_closed(num_hippos, current_yr) ==
    IF current_yr < 20 /\ num_hippos < 1000 THEN TRUE
    ELSE IF 20 <= current_yr /\ current_yr < 50 /\ num_hippos < 500 THEN TRUE
    ELSE FALSE

enough_resources(num_hippos, current_yr) ==
    IF current_yr < 20 /\ num_hippos < 1000 THEN TRUE
    ELSE IF 20 < current_yr /\ current_yr < 50 /\ num_hippos < 500 THEN TRUE
    ELSE FALSE

\* A mis-implementation: the comparison is not strict.
is_there_phenomenon_le(current_yr, random_number) ==
    IF random_number <= current_yr THEN TRUE ELSE FALSE

\* is_there_phenomenon, random_number being what randint(1, 300) returned.
is_there_phenomenon(current_yr, random_number) ==
    IF random_number < current_yr THEN TRUE ELSE FALSE

\* ------------------------------------------------------------- random source
Cost(z) == IF z = 0 THEN 0 ELSE 1

\* The z a draw may take when `budget` non-modal draws are still allowed.
Draws(budget) == {z \in ZScores : Cost(z) <= budget}

\* What is_there_phenomenon can answer in a year, over every randint(1, 300).
PhenomenonOutcomes(current_yr) ==
    {is_there_phenomenon(current_yr, random_number) :
        random_number \in randint(1, 300)}

\* A phenomenon firing is a non-modal draw while it can still fail to fire.
FireCost(outcomes, phenomenon) ==
    IF phenomenon /\ FALSE \in outcomes THEN 1 ELSE 0

\* ------------------------------------------------------------------ simulate
\* A mis-implementation: a population of exactly 0 keeps stepping.
ExtinctNegative(populationSize) == populationSize < 0

\* Line 176: the test that breaks the loop.
Extinct(populationSize) == populationSize <= 0

\* A mis-implementation: the instance keeps the class default population.
InitialKpiDefault(cls, ksp) == cls

\* Lines 170-173: kpi = KPI(); kpi.populationSize = ksp.initialPopulation.
InitialKpi(cls, ksp) == [cls EXCEPT !.populationSize = ksp.initialPopulation]

\* Line 193: the population update.
NewPopulation(p, newBirths, newDeaths, humanDeaths, resourceDeaths, phenomenonDeaths) ==
    p + newBirths - newDeaths - humanDeaths - resourceDeaths - phenomenonDeaths

\* Lines 178-193: one pass of the loop body on the instance k in year
\* current_yr, the draws being zb, zd, zh, zr, zp and the phenomenon outcome.
YearUpdate(k, ksp, current_yr, zb, zd, zh, zr, phenomenon, zp) ==
    LET p == k.populationSize
        newBirths == get_num_births(p, ksp.birthRate, ksp.birthRateDev, zb)
        newDeaths == get_num_deaths(p, ksp.deathRate, ksp.deathRateDev, zd)
        humanInfluence == is_there_human_influence(p, current_yr)
        humanDeaths ==
            IF humanInfluence
            THEN get_num_human_deaths(p, ksp.humanInfluenceRate, ksp.humanInfluenceDev, zh)
            ELSE 0
        resources == enough_resources(p, current_yr)
        resourceDeaths ==
            IF resources THEN 0
            ELSE get_num_resource_deaths(p, ksp.resourcesRate, ksp.resourcesDev, zr)
        phenomenonDeaths ==
            IF phenomenon
            THEN get_num_phenomenon_deaths(p, ksp.phenomenonRate, ksp.phenomenonDev, zp)
            ELSE 0
    IN  [populationSize |-> NewPopulation(p, newBirths, newDeaths, humanDeaths,
                                          resourceDeaths, phenomenonDeaths),
         newBirths |-> newBirths, newDeaths |-> newDeaths,
         humanInfluence |-> humanInfluence, humanDeaths |-> humanDeaths,
         resources |-> resources, resourceDeaths |-> resourceDeaths,
         phenomenon |-> phenomenon, phenomenonDeaths |-> phenomenonDeaths]

\* Lines 168-173: entering simulate(n) from `from`.
EnterSimulate(n, from) ==
    /\ num_years' = n
    /\ current_year' = 0
    /\ hippo_population' = <<>>
    /\ kpi' = InitialKpi(KPI, KSP)
    /\ caller' = from
    /\ pc' = "simulate"

\* The frame of simulate is gone once it has returned.
LeaveSimulate ==
    /\ num_years' = 0
    /\ current_year' = 0
    /\ hippo_population' = <<>>
    /\ kpi' = KPI

\* The top level calls simulate(n).
CallSimulate ==
    /\ pc = "idle"
    /\ \E n \in 0..MaxYears : EnterSimulate(n, "top")
    /\ ret' = [fn |-> "none"]
    /\ rare' = 0
    /\ UNCHANGED <<KSP, KPI, ccVars>>

\* Lines 175-195: one iteration of the loop.
YearStep ==
    /\ pc = "simulate"
    /\ current_year < num_years
    /\ ~Extinct(kpi.populationSize)
    /\ LET p == kpi.populationSize
           left == MaxRare - rare
           outcomes == PhenomenonOutcomes(current_year)
       IN  \E zb \in Draws(left) :
           \E zd \in Draws(left - Cost(zb)) :
           \E zh \in (IF is_there_human_influence(p, current_year)
                      THEN Draws(left - Cost(zb) - Cost(zd)) ELSE {0}) :
           \E zr \in (IF enough_resources(p, current_year)
                      THEN {0} ELSE Draws(left - Cost(zb) - Cost(zd) - Cost(zh))) :
           \E phenomenon \in outcomes :
           \E zp \in (IF phenomenon
                      THEN Draws(left - Cost(zb) - Cost(zd) - Cost(zh) - Cost(zr)
                                 - FireCost(outcomes, phenomenon))
                      ELSE {0}) :
              LET spent == Cost(zb) + Cost(zd) + Cost(zh) + Cost(zr) + Cost(zp)
                           + FireCost(outcomes, phenomenon)
                  k == YearUpdate(kpi, KSP, current_year, zb, zd, zh, zr, phenomenon, zp)
              IN  /\ spent <= left
                  /\ kpi' = k
                  /\ hippo_population' = Append(hippo_population, k.populationSize)
                  /\ current_year' = current_year + 1
                  /\ rare' = rare + spent
    /\ UNCHANGED <<KSP, KPI, pc, caller, num_years, ccVars, ret>>

\* Lines 175-176, 197: the loop is over (range exhausted, or break).
LoopOver == current_year >= num_years \/ Extinct(kpi.populationSize)

\* simulate returns to the top level.
SimulateReturn ==
    /\ pc = "simulate"
    /\ caller = "top"
    /\ LoopOver
    /\ ret' = [fn |-> "simulate", num_years |-> num_years, val |-> hippo_population]
    /\ pc' = "idle"
    /\ rare' = 0
    /\ LeaveSimulate
    /\ UNCHANGED <<KSP, KPI, caller, ccVars>>

\* ----------------------------------------------------- get_carrying_capacity
RECURSIVE Sum(_)
Sum(s) == IF s = <<>> THEN 0 ELSE Head(s) + Sum(Tail(s))

\* A mis-implementation: max(sim, default=0) never raises.
py_max_default(sim) ==
    IF sim = <<>> THEN [raised |-> FALSE, val |-> 0]
    ELSE [raised |-> FALSE,
          val |-> CHOOSE m \in {sim[k] : k \in 1..Len(sim)} :
                      \A k \in 1..Len(sim) : sim[k] <= m]

\* Python's max(sim): ValueError on an empty sequence.
py_max(sim) ==
    IF sim = <<>> THEN [raised |-> TRUE]
    ELSE [raised |-> FALSE,
          val |-> CHOOSE m \in {sim[k] : k \in 1..Len(sim)} :
                      \A k \in 1..Len(sim) : sim[k] <= m]

\* A mis-implementation: the mean is kept as a whole number.
np_mean_whole(a) == <<Sum(a) \div Len(a), 1>>

\* np.mean of a non-empty sequence of integers, as the fraction sum / length.
np_mean(a) == <<Sum(a), Len(a)>>

RECURSIVE DenProduct(_)
DenProduct(fs) == IF fs = <<>> THEN 1 ELSE Head(fs)[2] * DenProduct(Tail(fs))

RECURSIVE NumSum(_, _)
NumSum(fs, d) ==
    IF fs = <<>> THEN 0
    ELSE Head(fs)[1] * (d \div Head(fs)[2]) + NumSum(Tail(fs), d)

\* np.mean of a non-empty sequence of fractions, as one fraction.
np_mean_fractions(fs) ==
    LET d == DenProduct(fs) IN <<NumSum(fs, d), d * Len(fs)>>

\* A mis-implementation: every inner run is given num as its horizon.
SimHorizonNum(n, y) == n

\* Line 216: the horizon handed to simulate.
SimHorizon(n, y) == y

\* Line 221: result.append(maximum).
ResultAppend(res, m) == Append(res, m)

\* The top level calls get_carrying_capacity(n, y); lines 210-212.
CallGetCarryingCapacity ==
    /\ pc = "idle"
    /\ \E n \in 0..MaxNum, y \in 0..MaxCCYears :
          /\ num' = n
          /\ years' = y
    /\ maximum' = <<0, 1>>
    /\ array' = <<>>
    /\ result' = <<>>
    /\ i' = 0
    /\ j' = 0
    /\ pc' = "cc"
    /\ ret' = [fn |-> "none"]
    /\ rare' = 0
    /\ UNCHANGED <<KSP, KPI, caller, simVars>>

\* Line 216: the inner loop calls simulate.
CCSimulate ==
    /\ pc = "cc"
    /\ i < num
    /\ j < num
    /\ EnterSimulate(SimHorizon(num, years), "cc")
    /\ UNCHANGED <<KSP, KPI, ccVars, ret, rare>>

\* The frame of get_carrying_capacity is gone once it has ended.
LeaveCC ==
    /\ num' = 0
    /\ years' = 0
    /\ i' = 0
    /\ j' = 0
    /\ array' = <<>>
    /\ result' = <<>>
    /\ maximum' = <<0, 1>>

\* Lines 216-219: simulate returns sim; x = max(sim) is appended to array and
\* the running mean is recomputed.  max of an empty sim raises ValueError,
\* which nothing catches.
CCSimulateReturn ==
    /\ pc = "simulate"
    /\ caller = "cc"
    /\ LoopOver
    /\ LET sim == hippo_population
           x == py_max(sim)
       IN  IF x.raised
           THEN /\ pc' = "raised"
                /\ ret' = [fn |-> "get_carrying_capacity", num |-> num,
                           years |-> years, raised |-> "ValueError",
                           array |-> array, result |-> result]
                /\ UNCHANGED <<array, maximum, j>>
           ELSE /\ array' = Append(array, x.val)
                /\ maximum' = np_mean(array')
                /\ j' = j + 1
                /\ pc' = "cc"
                /\ UNCHANGED ret
    /\ LeaveSimulate
    /\ UNCHANGED <<KSP, KPI, caller, num, years, i, result, rare>>

\* Lines 215, 221: the inner loop is exhausted; the running mean is recorded.
CCEndBatch ==
    /\ pc = "cc"
    /\ i < num
    /\ j >= num
    /\ result' = ResultAppend(result, maximum)
    /\ i' = i + 1
    /\ j' = 0
    /\ UNCHANGED <<KSP, KPI, pc, caller, simVars, num, years, array, maximum,
                   ret, rare>>

\* Lines 223-224: the outer loop is exhausted.  np.mean of an empty result is
\* nan, and int(nan) raises ValueError.
CCReturn ==
    /\ pc = "cc"
    /\ i >= num
    /\ IF result = <<>>
       THEN /\ pc' = "raised"
            /\ ret' = [fn |-> "get_carrying_capacity", num |-> num,
                       years |-> years, raised |-> "ValueError",
                       array |-> array, result |-> result]
       ELSE LET m == np_mean_fractions(result)
                carrying_capacity == int(m[1], m[2])
            IN  /\ pc' = "idle"
                /\ ret' = [fn |-> "get_carrying_capacity", num |-> num,
                           years |-> years, val |-> carrying_capacity,
                           array |-> array, result |-> result]
    /\ LeaveCC
    /\ rare' = 0
    /\ UNCHANGED <<KSP, KPI, caller, simVars>>

\* ------------------------------------------- the predicates, called directly
\* A run that starts with pc = "direct" first calls one predicate on inputs of
\* its choice, and then goes on like any other run.
CallIsThereHumanInfluence ==
    /\ pc = "direct"
    /\ \E p \in PopulationSamples, y \in YearSamples :
          ret' = [fn |-> "is_there_human_influence", num_hippos |-> p,
                  current_year |-> y, val |-> is_there_human_influence(p, y)]
    /\ pc' = "idle"
    /\ UNCHANGED <<KSP, KPI, caller, simVars, ccVars, rare>>

CallEnoughResources ==
    /\ pc = "direct"
    /\ \E p \in PopulationSamples, y \in YearSamples :
          ret' = [fn |-> "enough_resources", num_hippos |-> p,
                  current_year |-> y, val |-> enough_resources(p, y)]
    /\ pc' = "idle"
    /\ UNCHANGED <<KSP, KPI, caller, simVars, ccVars, rare>>

CallIsTherePhenomenon ==
    /\ pc = "direct"
    /\ \E y \in YearSamples, random_number \in randint(1, 300) :
          ret' = [fn |-> "is_there_phenomenon", current_year |-> y,
                  random_number |-> random_number,
                  val |-> is_there_phenomenon(y, random_number)]
    /\ pc' = "idle"
    /\ UNCHANGED <<KSP, KPI, caller, simVars, ccVars, rare>>

\* ------------------------------------------------------------ specification
Init ==
    /\ KSP \in {KSPClass(p) : p \in InitialPopulations}
    /\ KPI = KPIClass
    /\ pc \in {"idle", "direct"}
    /\ caller = "top"
    /\ num_years = 0
    /\ current_year = 0
    /\ hippo_population = <<>>
    /\ kpi = KPIClass
    /\ num = 0
    /\ years = 0
    /\ i = 0
    /\ j = 0
    /\ array = <<>>
    /\ result = <<>>
    /\ maximum = <<0, 1>>
    /\ ret = [fn |-> "none"]
    /\ rare = 0

Next ==
    \/ CallSimulate
    \/ YearStep
    \/ SimulateReturn
    \/ CallGetCarryingCapacity
    \/ CCSimulate
    \/ CCSimulateReturn
    \/ CCEndBatch
    \/ CCReturn
    \/ CallIsThereHumanInfluence
    \/ CallEnoughResources
    \/ CallIsTherePhenomenon

Spec == Init /\ [][Next]_vars

\* ------------------------------------------------------------------ claims
\* c is the real number n / d (d > 0) with its fractional part dropped.
IsTruncationOf(c, n, d) ==
    /\ (c >= 0 /\ n >= 0) \/ (c <= 0 /\ n <= 0)
    /\ d * Abs(c) <= Abs(n)
    /\ Abs(n) < d * (Abs(c) + 1)

\* The rates, in thousandths, a sampler with this mean and deviation can draw.
SampledRates(mean, dev) == {normalvariate(mean, dev, z) : z \in ZScores}

\* c is population p times one of the sampled rates, truncated toward zero.
IsSampledCount(c, p, mean, dev) ==
    \E rate \in SampledRates(mean, dev) : IsTruncationOf(c, p * rate, 1000)

\* The population with which year t of a trajectory tr starts.
StartOf(tr, t) == IF t = 0 THEN KSP.initialPopulation ELSE tr[t]

\* simulate has executed at least one year; the last one is year LastYear and
\* started with population LastStart.
YearExecuted == pc = "simulate" /\ hippo_population # <<>>
LastYear == Len(hippo_population) - 1
LastStart == StartOf(hippo_population, LastYear)

SimulateReturned == pc = "idle" /\ ret.fn = "simulate"
CCReturned == pc = "idle" /\ ret.fn = "get_carrying_capacity"
CCRaised == pc = "raised" /\ ret.fn = "get_carrying_capacity"
InCC == pc = "cc" \/ (pc = "simulate" /\ caller = "cc")

\* C1: every element of the trajectory simulate returns is strictly positive
\* (the value <= 0 that ends the run is not recorded).
C1_TrajectoryPositive ==
    SimulateReturned => \A k \in 1..Len(ret.val) : ret.val[k] > 0

\* C2: simulate returns a trajectory whose length L is at most num_years and
\* is exactly the first year that starts with a population <= 0 (num_years if
\* there is none): every year before L started positive, and if L < num_years
\* then year L starts with a population <= 0.  While it runs, the loop has
\* recorded one entry per year passed and can always take its next step.
C2_LengthIsFirstExtinctYear ==
    /\ SimulateReturned =>
          LET tr == ret.val
              L == Len(tr)
          IN  /\ L <= ret.num_years
              /\ \A t \in 0..(L - 1) : StartOf(tr, t) > 0
              /\ L < ret.num_years => StartOf(tr, L) <= 0
              /\ ret.num_years = 0 => tr = <<>>
    /\ pc = "simulate" =>
          /\ Len(hippo_population) = current_year
          /\ current_year <= num_years
          /\ \A t \in 0..(current_year - 1) : StartOf(hippo_population, t) > 0
          /\ ENABLED YearStep \/ LoopOver

\* C2 witness: a run that returned short of its horizon after recording years.
C2_Witness ==
    /\ SimulateReturned
    /\ Len(ret.val) >= 2
    /\ Len(ret.val) < ret.num_years

\* C3: the year just executed, started with population p in year t, appended
\* p + births - naturalDeaths - humanDeaths - resourceDeaths - phenomenonDeaths,
\* each count being p times a rate of its own sampler truncated toward zero,
\* with humanDeaths 0 unless human influence holds for (p, t), resourceDeaths 0
\* when resources suffice for (p, t), phenomenonDeaths 0 unless the phenomenon
\* fired in t; the flags are those of (p, t), whatever the year before left.
C3_YearUpdate ==
    YearExecuted =>
        LET p == LastStart
            t == LastYear
        IN  /\ hippo_population[Len(hippo_population)] = kpi.populationSize
            /\ kpi.populationSize =
                   p + kpi.newBirths - kpi.newDeaths - kpi.humanDeaths
                     - kpi.resourceDeaths - kpi.phenomenonDeaths
            /\ IsSampledCount(kpi.newBirths, p, KSP.birthRate, KSP.birthRateDev)
            /\ IsSampledCount(kpi.newDeaths, p, KSP.deathRate, KSP.deathRateDev)
            /\ kpi.humanInfluence = is_there_human_influence(p, t)
            /\ IF kpi.humanInfluence
               THEN IsSampledCount(kpi.humanDeaths, p, KSP.humanInfluenceRate,
                                   KSP.humanInfluenceDev)
               ELSE kpi.humanDeaths = 0
            /\ kpi.resources = enough_resources(p, t)
            /\ IF kpi.resources
               THEN kpi.resourceDeaths = 0
               ELSE IsSampledCount(kpi.resourceDeaths, p, KSP.resourcesRate,
                                   KSP.resourcesDev)
            /\ kpi.phenomenon => \E random_number \in 1..300 : random_number < t
            /\ IF kpi.phenomenon
               THEN IsSampledCount(kpi.phenomenonDeaths, p, KSP.phenomenonRate,
                                   KSP.phenomenonDev)
               ELSE kpi.phenomenonDeaths = 0

\* C3 witness: a year in which all three conditional effects took hippos.
C3_Witness ==
    /\ YearExecuted
    /\ kpi.humanDeaths > 0
    /\ kpi.resourceDeaths > 0
    /\ kpi.phenomenonDeaths > 0

\* The resource-sufficiency rule as the specification words it.
ResourcesSuffice(p, y) ==
    (y < 20 /\ p < 1000) \/ (20 < y /\ y < 50 /\ p < 500)

\* C4: enough_resources(population, year) is true exactly when (year < 20 and
\* population < 1000) or (20 < year < 50 and population < 500); it is false in
\* year 20 and in every year >= 50, at every population.
C4_EnoughResources ==
    /\ ret.fn = "enough_resources" =>
          /\ ret.val = ResourcesSuffice(ret.num_hippos, ret.current_year)
          /\ ret.current_year = 20 => ret.val = FALSE
          /\ ret.current_year >= 50 => ret.val = FALSE
    /\ YearExecuted => kpi.resources = ResourcesSuffice(LastStart, LastYear)

\* C4 witness: year 20 with a population below 500 is answered "insufficient".
C4_Witness ==
    /\ ret.fn = "enough_resources"
    /\ ret.current_year = 20
    /\ ret.num_hippos < 500
    /\ ret.val = FALSE

\* C5: is_there_human_influence(population, year) is true exactly when
\* year >= 3 and population >= 400; in years 0, 1 and 2 of a trajectory there
\* is no human influence and human deaths are 0.
C5_HumanInfluence ==
    /\ ret.fn = "is_there_human_influence" =>
          /\ ret.val = (ret.current_year >= 3 /\ ret.num_hippos >= 400)
          /\ ret.current_year < 3 => ret.val = FALSE
    /\ YearExecuted =>
          /\ kpi.humanInfluence = (LastYear >= 3 /\ LastStart >= 400)
          /\ LastYear < 3 => kpi.humanDeaths = 0

\* C5 witness: year 3 of a trajectory, started with at least 400 hippos, in
\* which humans took some.
C5_Witness ==
    /\ YearExecuted
    /\ LastYear = 3
    /\ LastStart >= 400
    /\ kpi.humanInfluence
    /\ kpi.humanDeaths > 0

\* C6: is_there_phenomenon(year) is true exactly when the draw from 1..300 is
\* below year: never for year <= 1, either way for 2 <= year <= 300, always
\* for year >= 301; in years 0 and 1 of a trajectory no phenomenon fires and
\* phenomenon deaths are 0.
C6_Phenomenon ==
    /\ ret.fn = "is_there_phenomenon" =>
          /\ ret.random_number \in 1..300
          /\ ret.val = (ret.random_number < ret.current_year)
          /\ ret.current_year <= 1 => ret.val = FALSE
          /\ ret.current_year >= 301 => ret.val = TRUE
          /\ LET y == ret.current_year
             IN  /\ y <= 1 => PhenomenonOutcomes(y) = {FALSE}
                 /\ (2 <= y /\ y <= 300) => PhenomenonOutcomes(y) = {TRUE, FALSE}
                 /\ y >= 301 => PhenomenonOutcomes(y) = {TRUE}
    /\ (YearExecuted /\ LastYear <= 1) =>
          (kpi.phenomenon = FALSE /\ kpi.phenomenonDeaths = 0)

\* C6 witness: in year 301 the largest draw, 300, still fires the phenomenon.
C6_Witness ==
    /\ ret.fn = "is_there_phenomenon"
    /\ ret.current_year = 301
    /\ ret.random_number = 300
    /\ ret.val = TRUE

\* The sum of the first n peaks of a.
PeakSum(a, n) == Sum(SubSeq(a, 1, n))

RECURSIVE Factorial(_)
Factorial(n) == IF n <= 1 THEN 1 ELSE n * Factorial(n - 1)

\* n * n * n! times the mean of the n cumulative means of the peaks a: the
\* k-th cumulative mean is PeakSum(a, k * n) / (k * n).
RECURSIVE ScaledMeanOfCumulativeMeans(_, _, _)
ScaledMeanOfCumulativeMeans(a, n, k) ==
    IF k = 0 THEN 0
    ELSE PeakSum(a, k * n) * (Factorial(n) \div k)
         + ScaledMeanOfCumulativeMeans(a, n, k - 1)

\* The k-th recorded mean is the mean of the first k * n peaks.
IsCumulativeMean(m, a, n, k) == m[1] * (k * n) = PeakSum(a, k * n) * m[2]

\* C7: for num >= 1, get_carrying_capacity records after outer iteration k the
\* mean of all the first k * num peaks collected so far, and returns the mean
\* of those num recorded means truncated to an integer.
C7_CumulativeMeans ==
    /\ (InCC /\ num >= 1) =>
          /\ Len(result) = i
          /\ \A k \in 1..Len(result) :
                /\ k * num <= Len(array)
                /\ IsCumulativeMean(result[k], array, num, k)
    /\ (CCReturned /\ ret.num >= 1) =>
          LET a == ret.array
              n == ret.num
          IN  /\ Len(a) = n * n
              /\ Len(ret.result) = n
              /\ \A k \in 1..n : IsCumulativeMean(ret.result[k], a, n, k)
              /\ IsTruncationOf(ret.val,
                                ScaledMeanOfCumulativeMeans(a, n, n),
                                n * n * Factorial(n))

\* C7 witness: an estimate that differs from the two-level mean of the batch
\* means (which, the batches being equal in size, is the mean of all peaks).
C7_Witness ==
    /\ CCReturned
    /\ ret.num >= 2
    /\ ~IsTruncationOf(ret.val, Sum(ret.array), ret.num * ret.num)

\* C8 as stated: every inner trajectory is simulated with a horizon of num
\* years, whatever the years argument.
C8_HorizonIsNum ==
    (pc = "simulate" /\ caller = "cc") => num_years = num

\* C8 amended: get_carrying_capacity(num, years) runs num outer iterations of
\* num inner trajectories, each simulated with a horizon of years (its second
\* argument); num is the horizon only when the caller passes years = num.
C8_HorizonIsYears ==
    /\ (pc = "simulate" /\ caller = "cc") => num_years = years
    /\ InCC =>
          /\ i <= num
          /\ j <= num
          /\ i = num => j = 0
          /\ Len(array) = i * num + j
          /\ Len(result) = i
    /\ CCReturned =>
          /\ Len(ret.array) = ret.num * ret.num
          /\ Len(ret.result) = ret.num

\* C8 witness: the last inner run of get_carrying_capacity(2, 1) has finished
\* its single year.
C8_Witness ==
    /\ pc = "simulate"
    /\ caller = "cc"
    /\ num = 2
    /\ years = 1
    /\ i = 1
    /\ j = 1
    /\ current_year = 1
    /\ num_years = 1

\* C9: no step changes the configured parameters (KSP) or the class-level KPI
\* defaults, and every step that enters simulate leaves it at year 0 with an
\* empty trajectory and an instance whose population is the configured
\* initial population, its other fields being the class defaults.
C9_FreshStart ==
    [][/\ KSP' = KSP
       /\ KPI' = KPI
       /\ KPI' = KPIClass
       /\ (pc # "simulate" /\ pc' = "simulate") =>
             /\ current_year' = 0
             /\ hippo_population' = <<>>
             /\ kpi'.populationSize = KSP.initialPopulation
             /\ kpi' = [KPIClass EXCEPT !.populationSize = KSP.initialPopulation]
      ]_vars

\* C9 witness: a run of simulate about to start its first year after an
\* earlier run of the same estimate ended elsewhere, in extinction.
C9_Witness ==
    /\ pc = "simulate"
    /\ caller = "cc"
    /\ current_year = 0
    /\ array # <<>>
    /\ array[Len(array)] <= 0
    /\ KSP.initialPopulation > 0
    /\ kpi.populationSize = KSP.initialPopulation

\* C10: for num >= 1, when simulate(years) returns an empty trajectory (years
\* <= 0, or a configured initial population <= 0), get_carrying_capacity ends
\* in an error on its very first inner run and returns no estimate.
C10_EmptyTrajectoryRaises ==
    LET empty(y) == y <= 0 \/ KSP.initialPopulation <= 0
    IN  /\ (CCReturned /\ ret.num >= 1) => ~empty(ret.years)
        /\ (CCRaised /\ ret.num >= 1) =>
              /\ empty(ret.years)
              /\ ret.array = <<>>
              /\ ret.result = <<>>
              /\ i = 0
              /\ j = 0
        /\ (InCC /\ num >= 1 /\ empty(years)) =>
              /\ array = <<>>
              /\ i = 0
              /\ j = 0
        /\ (pc = "simulate" /\ caller = "cc" /\ empty(years)) =>
              (hippo_population = <<>> /\ LoopOver)

\* C10 witness: the error, raised for a positive horizon because the
\* configured initial population is not positive.
C10_Witness ==
    /\ CCRaised
    /\ ret.num >= 1
    /\ ret.years >= 1
    /\ KSP.initialPopulation <= 0
    /\ ret.array = <<>>

====
